---- MODULE Spec2Model ----
(***************************************************************************)
(* A model of gonids' rule.go: the rendering of an IDS rule (Rule.String), *)
(* of its contents (Contents.String, Content.FormatPattern,                *)
(* Content.ToRegexp, Rule.RE) and of the byte_* matchers.                  *)
(*                                                                         *)
(* Text is a sequence of byte values (Go strings and []byte), so that a    *)
(* pattern's bytes and the characters written around them share one type.  *)
(* A literal of the source is written as the tuple of its bytes, with the  *)
(* literal beside it in a comment.                                         *)
(***************************************************************************)
EXTENDS Integers, Sequences, FiniteSets, TLC

VARIABLES
    rule,   \* the Rule value the calls are made on
    pc,     \* Rule.String's position: "idle", "matchers" (the loop over r.Matchers), "done"
    s,      \* Rule.String's strings.Builder
    d,      \* Rule.String's sticky-buffer cursor (the local d)
    i,      \* Rule.String's position in r.Matchers (1-based)
    arg,    \* the receiver or argument of a call on a single value
    ret     \* the last call that returned: [fn, val, err]

vars == <<rule, pc, s, d, i, arg, ret>>

\* ------------------------------------------------------------------ text

RECURSIVE Cat(_)
\* The concatenation of a sequence of texts (successive WriteString calls).
Cat(parts) ==
    IF parts = <<>> THEN <<>> ELSE Head(parts) \o Cat(Tail(parts))

\* Whether text t holds byte b.
Contains(t, b) == \E k \in 1..Len(t) : t[k] = b

\* Whether p is a prefix of t.
IsPrefix(p, t) == Len(p) <= Len(t) /\ SubSeq(t, 1, Len(p)) = p

\* One digit of fmt's %X.
hexDigit(n) == IF n < 10 THEN 48 + n ELSE 55 + n

\* fmt.Sprintf("%.2X", b) of a byte: two uppercase hex digits.
Hex2(b) == <<hexDigit(b \div 16), hexDigit(b % 16)>>

RECURSIVE utoa(_)
\* The decimal digits of a natural number.
utoa(n) ==
    IF n < 10 THEN <<48 + n>> ELSE Append(utoa(n \div 10), 48 + (n % 10))

\* fmt's %d of an int.
itoa(n) == IF n < 0 THEN <<45>> \o utoa(-n) ELSE utoa(n)

\* ------------------------------------------------- Content.FormatPattern

hexEscaped_spaceToo(b) == b > 126 \/ b < 35 \/ b = 58 \/ b = 59

hexEscaped_offByOne(b) == b # 32 /\ (b > 126 \/ b <= 35 \/ b = 58 \/ b = 59)

\* The test of FormatPattern's loop: the byte is written as a hex pair.
hexEscaped(b) == b # 32 /\ (b > 126 \/ b < 35 \/ b = 58 \/ b = 59)

closeRun_never(buffer, pipe) == buffer

\* FormatPattern's last step: a run still open is closed.
closeRun(buffer, pipe) == IF pipe THEN Append(buffer, 124) ELSE buffer

RECURSIVE formatLoop(_, _, _, _)
\* FormatPattern's loop from byte k on, with the buffer and the pipe flag so far.
formatLoop(pattern, k, buffer, pipe) ==
    IF k > Len(pattern) THEN closeRun(buffer, pipe)
    ELSE LET b == pattern[k] IN
         IF hexEscaped(b)
         THEN formatLoop(pattern, k + 1,
                         (IF ~pipe THEN Append(buffer, 124) ELSE buffer \o <<32>> (* ' ' *))
                             \o Hex2(b),
                         TRUE)
         ELSE formatLoop(pattern, k + 1,
                         Append(IF pipe THEN Append(buffer, 124) ELSE buffer, b),
                         FALSE)

\* Content.FormatPattern.
FormatPattern(c) == formatLoop(c.Pattern, 1, <<>>, FALSE)

\* ------------------------------------------------------- sticky buffers

pktData == 0
fileData == 1
base64Data == 2

\* The stickyBuffers table, in the order of the DataPos constants (entry d + 1 is DataPos d).
stickyBuffers == <<
    <<112,107,116,95,100,97,116,97>> (* 'pkt_data' *),
    <<102,105,108,101,95,100,97,116,97>> (* 'file_data' *),
    <<98,97,115,101,54,52,95,100,97,116,97>> (* 'base64_data' *),
    <<104,116,116,112,95,97,99,99,101,112,116,95,101,110,99>> (* 'http_accept_enc' *),
    <<104,116,116,112,95,97,99,99,101,112,116>> (* 'http_accept' *),
    <<104,116,116,112,95,97,99,99,101,112,116,95,108,97,110,103>> (* 'http_accept_lang' *),
    <<104,116,116,112,95,99,111,110,110,101,99,116,105,111,110>> (* 'http_connection' *),
    <<104,116,116,112,95,99,111,110,116,101,110,116,95,108,101,110>> (* 'http_content_len' *),
    <<104,116,116,112,95,99,111,110,116,101,110,116,95,116,121,112,101>> (* 'http_content_type' *),
    <<104,116,116,112,95,104,101,97,100,101,114,95,110,97,109,101,115>> (* 'http_header_names' *),
    <<104,116,116,112,95,112,114,111,116,111,99,111,108>> (* 'http_protocol' *),
    <<104,116,116,112,95,114,101,102,101,114,101,114>> (* 'http_referer' *),
    <<104,116,116,112,95,114,101,113,117,101,115,116,95,108,105,110,101>> (* 'http_request_line' *),
    <<104,116,116,112,95,114,101,115,112,111,110,115,101,95,108,105,110,101>> (* 'http_response_line' *),
    <<104,116,116,112,95,115,116,97,114,116>> (* 'http_start' *),
    <<116,108,115,95,99,101,114,116,95,115,117,98,106,101,99,116>> (* 'tls_cert_subject' *),
    <<116,108,115,95,99,101,114,116,95,105,115,115,117,101,114>> (* 'tls_cert_issuer' *),
    <<116,108,115,95,99,101,114,116,95,115,101,114,105,97,108>> (* 'tls_cert_serial' *),
    <<116,108,115,95,99,101,114,116,95,102,105,110,103,101,114,112,114,105,110,116>> (* 'tls_cert_fingerprint' *),
    <<116,108,115,95,115,110,105>> (* 'tls_sni' *),
    <<106,97,51,95,104,97,115,104>> (* 'ja3_hash' *),
    <<106,97,51,95,115,116,114,105,110,103>> (* 'ja3_string' *),
    <<115,115,104,95,112,114,111,116,111>> (* 'ssh_proto' *),
    <<115,115,104,95,115,111,102,116,119,97,114,101>> (* 'ssh_software' *),
    <<107,114,98,53,95,99,110,97,109,101>> (* 'krb5_cname' *),
    <<107,114,98,53,95,115,110,97,109,101>> (* 'krb5_sname' *),
    <<100,110,115,95,113,117,101,114,121>> (* 'dns_query' *),
    <<115,109,98,95,110,97,109,101,100,95,112,105,112,101>> (* 'smb_named_pipe' *),
    <<115,109,98,95,115,104,97,114,101>> (* 'smb_share' *) >>

\* DataPos.String: the table's entry, the empty string for a value it does not hold.
DataPosString(dp) ==
    IF dp \in 0..(Len(stickyBuffers) - 1) THEN stickyBuffers[dp + 1] ELSE <<>>

\* -------------------------------------------------------- byte matchers

bUnknown == 0
bExtract == 1
bTest == 2
bJump == 3

\* The keys of byteMatcherVals.
byteMatcherKinds == {bExtract, bJump, bTest}

\* byteMatcherVals[k]: a Go map read, the empty string for a key it does not hold.
byteMatcherVals(k) ==
    CASE k = bExtract -> <<98,121,116,101,95,101,120,116,114,97,99,116>> (* 'byte_extract' *)
      [] k = bJump -> <<98,121,116,101,95,106,117,109,112>> (* 'byte_jump' *)
      [] k = bTest -> <<98,121,116,101,95,116,101,115,116>> (* 'byte_test' *)
      [] OTHER -> <<>>

\* ByteMatcher: the kind of a keyword, or bUnknown and an error.
ByteMatcher(kw) ==
    IF \E k \in byteMatcherKinds : byteMatcherVals(k) = kw
    THEN [val |-> CHOOSE k \in byteMatcherKinds : byteMatcherVals(k) = kw, err |-> FALSE]
    ELSE [val |-> bUnknown, err |-> TRUE]

\* ByteMatch.String's switch: the fixed arguments of each kind, nothing for any other.
byteMatchArgs(b) ==
    CASE b.Kind = bExtract ->
            Cat(<<itoa(b.NumBytes), <<44>> (* ',' *), itoa(b.Offset), <<44>> (* ',' *), b.Variable>>)
      [] b.Kind = bJump ->
            Cat(<<itoa(b.NumBytes), <<44>> (* ',' *), itoa(b.Offset)>>)
      [] b.Kind = bTest ->
            Cat(<<itoa(b.NumBytes), <<44>> (* ',' *), b.Operator, <<44>> (* ',' *), itoa(b.Value), <<44>> (* ',' *), itoa(b.Offset)>>)
      [] OTHER -> <<>>

\* ByteMatch.String.
ByteMatchString(b) ==
    Cat(<<byteMatcherVals(b.Kind), <<58>> (* ':' *), byteMatchArgs(b)>>)
        \o Cat([k \in 1..Len(b.Options) |-> <<44>> (* ',' *) \o b.Options[k]])
        \o <<59>> (* ';' *)

\* ------------------------------------------------------ content, pcre

\* The options ContentOption.String writes with their value.
valuedOptions ==
    {<<98,121,116,101,95,101,120,116,114,97,99,116>> (* 'byte_extract' *), <<100,101,112,116,104>> (* 'depth' *), <<100,105,115,116,97,110,99,101>> (* 'distance' *), <<111,102,102,115,101,116>> (* 'offset' *), <<119,105,116,104,105,110>> (* 'within' *)}

\* ContentOption.String.
ContentOptionString(co) ==
    IF co.Name \in valuedOptions
    THEN Cat(<<co.Name, <<58>> (* ':' *), co.Value, <<59>> (* ';' *)>>)
    ELSE co.Name \o <<59>> (* ';' *)

\* FastPattern.String.
FastPatternString(f) ==
    IF ~f.Enabled THEN <<>>
    ELSE IF f.Only /\ (f.Offset # 0 \/ f.Length # 0) THEN <<>>
    ELSE IF f.Only THEN <<102,97,115,116,95,112,97,116,116,101,114,110>> (* 'fast_pattern' *) \o <<58,111,110,108,121,59>> (* ':only;' *)
    ELSE <<102,97,115,116,95,112,97,116,116,101,114,110>> (* 'fast_pattern' *)
            \o (IF f.Offset # 0 /\ f.Length # 0
                THEN Cat(<<<<58>> (* ':' *), itoa(f.Offset), <<44>> (* ',' *), itoa(f.Length)>>)
                ELSE <<>>)
            \o <<59>> (* ';' *)

\* Content.String.
ContentString(c) ==
    <<99,111,110,116,101,110,116,58>> (* 'content:' *)
        \o (IF c.Negate THEN <<33>> (* '!' *) ELSE <<>>)
        \o Cat(<<<<34>> (* '"' *), FormatPattern(c), <<34,59>> (* '";' *)>>)
        \o Cat([k \in 1..Len(c.Options) |-> <<32>> (* ' ' *) \o ContentOptionString(c.Options[k])])
        \o (IF c.FastPattern.Enabled
            THEN <<32>> (* ' ' *) \o FastPatternString(c.FastPattern)
            ELSE <<>>)

RECURSIVE escapeQuotes(_)
\* bytes.Replace(pattern, `"`, `\"`, -1).
escapeQuotes(p) ==
    IF p = <<>> THEN <<>>
    ELSE (IF Head(p) = 34 THEN <<92,34>> (* '\\"' *) ELSE <<Head(p)>>) \o escapeQuotes(Tail(p))

\* PCRE.String.
PCREString(p) ==
    IF Len(p.Pattern) < 1 THEN <<>>
    ELSE <<112,99,114,101,58>> (* 'pcre:' *)
            \o (IF p.Negate THEN <<33>> (* '!' *) ELSE <<>>)
            \o Cat(<<<<34,47>> (* '"/' *), escapeQuotes(p.Pattern), <<47>> (* '/' *), p.Options, <<34,59>> (* '";' *)>>)

\* The String method fmt calls on an element of Rule.Matchers.
MatcherString(m) ==
    CASE m.type = "Content" -> ContentString(m)
      [] m.type = "PCRE" -> PCREString(m)
      [] m.type = "ByteMatch" -> ByteMatchString(m)

\* The bytes strings.TrimSpace strips (ASCII white space; the texts built here
\* hold no multi-byte white space at their ends).
spaceBytes == {9, 10, 11, 12, 13, 32}

RECURSIVE trimLeft(_)
trimLeft(t) ==
    IF t # <<>> /\ Head(t) \in spaceBytes THEN trimLeft(Tail(t)) ELSE t

RECURSIVE trimRight(_)
trimRight(t) ==
    IF t # <<>> /\ t[Len(t)] \in spaceBytes THEN trimRight(SubSeq(t, 1, Len(t) - 1)) ELSE t

\* strings.TrimSpace.
TrimSpace(t) == trimRight(trimLeft(t))

RECURSIVE contentsLoop(_, _, _, _)
\* Contents.String's loop from content k on, with the builder and the cursor so far.
contentsLoop(cs, k, sb, dd) ==
    IF k > Len(cs) THEN sb
    ELSE LET c == cs[k] IN
         IF dd # c.DataPosition
         THEN contentsLoop(cs, k + 1,
                           Cat(<<sb, <<32>> (* ' ' *), DataPosString(c.DataPosition), <<59>> (* ';' *),
                                 <<32>> (* ' ' *), ContentString(c)>>),
                           c.DataPosition)
         ELSE contentsLoop(cs, k + 1, Cat(<<sb, <<32>> (* ' ' *), ContentString(c)>>), dd)

\* Contents.String.
ContentsString(cs) == TrimSpace(contentsLoop(cs, 1, <<>>, pktData))

\* ------------------------------------------------------------- regexps

\* The bytes regexp.QuoteMeta escapes: \.+*?()|[]{}^$
quoteMetaBytes == {92, 46, 43, 42, 63, 40, 41, 124, 91, 93, 123, 125, 94, 36}

\* regexp.QuoteMeta.
QuoteMeta(t) ==
    Cat([k \in 1..Len(t) |-> IF t[k] \in quoteMetaBytes THEN <<92, t[k]>> ELSE <<t[k]>>])

\* Content.ToRegexp.
ToRegexp(c) ==
    QuoteMeta([k \in 1..Len(c.Pattern) |->
                  IF c.Pattern[k] > 126 \/ c.Pattern[k] < 32 THEN 46 ELSE c.Pattern[k]])

\* The bytes escapeRE matches. The variable is declared outside rule.go; it is taken
\* to match each regular-expression metacharacter, one at a time, in its one group.
escapeRE == quoteMetaBytes

\* escape: escapeRE.ReplaceAllString(r, `\$1`), a backslash before each match.
escape(r) ==
    Cat([k \in 1..Len(r) |-> IF r[k] \in escapeRE THEN <<92, r[k]>> ELSE <<r[k]>>])

\* within: the value of the first option named within, or the empty string.
within(options) ==
    IF \E k \in 1..Len(options) : options[k].Name = <<119,105,116,104,105,110>> (* 'within' *)
    THEN LET first == CHOOSE k \in 1..Len(options) :
                         /\ options[k].Name = <<119,105,116,104,105,110>> (* 'within' *)
                         /\ \A j \in 1..(k - 1) : options[j].Name # <<119,105,116,104,105,110>> (* 'within' *)
         IN options[first].Value
    ELSE <<>>

RECURSIVE digitsValue(_)
\* The number a text of decimal digits stands for.
digitsValue(t) ==
    IF t = <<>> THEN 0 ELSE 10 * digitsValue(SubSeq(t, 1, Len(t) - 1)) + (t[Len(t)] - 48)

\* strconv.Atoi: an optional sign and at least one decimal digit, nothing else
\* (the values drawn stay far inside the range of int).
Atoi(t) ==
    LET signed == t # <<>> /\ Head(t) \in {43, 45}
        body == IF signed THEN Tail(t) ELSE t
    IN  IF body # <<>> /\ \A k \in 1..Len(body) : body[k] \in 48..57
        THEN [val |-> IF signed /\ Head(t) = 45 THEN -digitsValue(body) ELSE digitsValue(body),
              err |-> FALSE]
        ELSE [val |-> 0, err |-> TRUE]

reGap_zeroToo(c) ==
    LET a == Atoi(within(c.Options))
    IN  IF ~a.err /\ a.val >= 0
        THEN Cat(<<<<46,123,48,44>> (* '.{0,' *), itoa(a.val), <<125>> (* '}' *)>>)
        ELSE <<46,42>> (* '.*' *)

\* Rule.RE's gap before a content.
reGap(c) ==
    LET a == Atoi(within(c.Options))
    IN  IF ~a.err /\ a.val > 0
        THEN Cat(<<<<46,123,48,44>> (* '.{0,' *), itoa(a.val), <<125>> (* '}' *)>>)
        ELSE <<46,42>> (* '.*' *)

\* Rule.RE.
RE(r) ==
    Cat([k \in 1..Len(r.Contents) |-> reGap(r.Contents[k]) \o escape(r.Contents[k].Pattern)])

\* ---------------------------------------------------------- Rule.String

\* netString.
netString(netPart) ==
    (IF Len(netPart) > 1 THEN <<91>> (* '[' *) ELSE <<>>)
        \o Cat([k \in 1..Len(netPart) |->
                   netPart[k] \o (IF k < Len(netPart) THEN <<44>> (* ',' *) ELSE <<>>)])
        \o (IF Len(netPart) > 1 THEN <<93>> (* ']' *) ELSE <<>>)

\* Network.String.
NetworkString(n) == Cat(<<netString(n.Nets), <<32>> (* ' ' *), netString(n.Ports)>>)

\* Metadatas.String.
MetadatasString(ms) ==
    IF Len(ms) < 1 THEN <<>>
    ELSE <<109,101,116,97,100,97,116,97,58>> (* 'metadata:' *)
            \o Cat([k \in 1..Len(ms) |->
                       Cat(<<ms[k].Key, <<32>> (* ' ' *), ms[k].Value,
                             IF k < Len(ms) THEN <<44,32>> (* ', ' *) ELSE <<59>> (* ';' *)>>)])

\* The actions Flowbit.String renders.
flowbitActions ==
    {<<110,111,97,108,101,114,116>> (* 'noalert' *), <<105,115,115,101,116>> (* 'isset' *), <<105,115,110,111,116,115,101,116>> (* 'isnotset' *), <<115,101,116>> (* 'set' *), <<117,110,115,101,116>> (* 'unset' *), <<116,111,103,103,108,101>> (* 'toggle' *)}

\* Flowbit.String.
FlowbitString(fb) ==
    IF fb.Action \notin flowbitActions THEN <<>>
    ELSE Cat(<<<<102,108,111,119,98,105,116,115,58>> (* 'flowbits:' *), fb.Action,
               IF fb.Value # <<>> THEN <<44>> (* ',' *) \o fb.Value ELSE <<>>,
               <<59>> (* ';' *)>>)

\* Reference.String.
ReferenceString(r) == Cat(<<<<114,101,102,101,114,101,110,99,101,58>> (* 'reference:' *), r.Type, <<44>> (* ',' *), r.Value, <<59>> (* ';' *)>>)

\* Rule.String up to the matchers: the comment sign, the header and the msg option.
ruleHead(r) ==
    Cat(<<IF r.Disabled THEN <<35>> (* '#' *) ELSE <<>>,
          r.Action, <<32>> (* ' ' *), r.Protocol, <<32>> (* ' ' *), NetworkString(r.Source), <<32>> (* ' ' *),
          IF ~r.Bidirectional THEN <<45,62,32>> (* '-> ' *) ELSE <<60,62,32>> (* '<> ' *),
          NetworkString(r.Destination), <<32,40,109,115,103,58,34>> (* ' (msg:"' *), r.Description, <<34,59,32>> (* '"; ' *)>>)

\* Rule.String after the matchers, the tags being ranged over in the given order
\* (a Go map's range order is not fixed).
ruleTail(r, tagOrder) ==
    Cat(<<IF Len(r.Metas) > 0 THEN MetadatasString(r.Metas) \o <<32>> (* ' ' *) ELSE <<>>,
          Cat([k \in 1..Len(tagOrder) |->
                  Cat(<<tagOrder[k].k, <<58>> (* ':' *), tagOrder[k].v, <<59,32>> (* '; ' *)>>)]),
          Cat([k \in 1..Len(r.Flowbits) |-> FlowbitString(r.Flowbits[k]) \o <<32>> (* ' ' *)]),
          Cat([k \in 1..Len(r.References) |-> ReferenceString(r.References[k]) \o <<32>> (* ' ' *)]),
          <<115,105,100,58>> (* 'sid:' *), itoa(r.SID), <<59,32,114,101,118,58>> (* '; rev:' *), itoa(r.Revision), <<59,41>> (* ';)' *)>>)

\* The orders a range over the Tags map may take.
tagOrders(tags) ==
    {q \in [1..Cardinality(tags) -> tags] : \A e \in tags : \E k \in DOMAIN q : q[k] = e}

matcherAt_typed(r, k) ==
    LET typed == r.Contents \o r.PCREs \o r.ByteMatchers
    IN  IF k <= Len(typed) THEN typed[k] ELSE r.Matchers[k]

\* The element the loop over r.Matchers visits at its step k.
matcherAt(r, k) == r.Matchers[k]

writeMatcher_cursorKept(sb, dd, m) ==
    IF m.type = "Content" /\ dd # m.DataPosition
    THEN [s |-> Cat(<<sb, <<32>> (* ' ' *), DataPosString(m.DataPosition), <<59>> (* ';' *),
                      MatcherString(m), <<32>> (* ' ' *)>>),
          d |-> dd]
    ELSE [s |-> Cat(<<sb, MatcherString(m), <<32>> (* ' ' *)>>), d |-> dd]

\* One pass of the loop over r.Matchers: the builder and the cursor after matcher m.
writeMatcher(sb, dd, m) ==
    IF m.type = "Content" /\ dd # m.DataPosition
    THEN [s |-> Cat(<<sb, <<32>> (* ' ' *), DataPosString(m.DataPosition), <<59>> (* ';' *),
                      MatcherString(m), <<32>> (* ' ' *)>>),
          d |-> m.DataPosition]
    ELSE [s |-> Cat(<<sb, MatcherString(m), <<32>> (* ' ' *)>>), d |-> dd]

\* No call has returned yet.
NoRet == [fn |-> "none", val |-> <<>>, err |-> FALSE]

\* No single value is under a call.
NoArg == [type |-> "none"]

\* Rule.String begins: the head is written; the cursor starts at pkt_data.
StringStart ==
    /\ pc \in {"idle", "done"}
    /\ s' = ruleHead(rule)
    /\ d' = pktData
    /\ i' = 1
    /\ pc' = "matchers"
    /\ ret' = NoRet
    /\ UNCHANGED <<rule, arg>>

\* Rule.String writes the next matcher.
StringMatcher ==
    /\ pc = "matchers"
    /\ i <= Len(rule.Matchers)
    /\ LET w == writeMatcher(s, d, matcherAt(rule, i))
       IN  s' = w.s /\ d' = w.d
    /\ i' = i + 1
    /\ UNCHANGED <<rule, pc, arg, ret>>

\* Rule.String writes what follows the matchers and returns.
StringFinish ==
    /\ pc = "matchers"
    /\ i > Len(rule.Matchers)
    /\ \E order \in tagOrders(rule.Tags) :
          /\ s' = s \o ruleTail(rule, order)
          /\ ret' = [fn |-> "Rule.String", val |-> s', err |-> FALSE]
    /\ pc' = "done"
    /\ UNCHANGED <<rule, d, i, arg>>

\* r.Contents.String() is called.
CallContentsString ==
    /\ pc \in {"idle", "done"}
    /\ ret' = [fn |-> "Contents.String", val |-> ContentsString(rule.Contents), err |-> FALSE]
    /\ UNCHANGED <<rule, pc, s, d, i, arg>>

\* r.RE() is called.
CallRE ==
    /\ pc = "idle"
    /\ ret' = [fn |-> "RE", val |-> RE(rule), err |-> FALSE]
    /\ arg' = NoArg
    /\ UNCHANGED <<rule, pc, s, d, i>>

\* ToRegexp is called on one of the rule's contents.
CallToRegexp ==
    /\ pc = "idle"
    /\ \E k \in 1..Len(rule.Contents) :
          /\ arg' = rule.Contents[k]
          /\ ret' = [fn |-> "ToRegexp", val |-> ToRegexp(rule.Contents[k]), err |-> FALSE]
    /\ UNCHANGED <<rule, pc, s, d, i>>

\* FormatPattern is called on the content under call.
CallFormatPattern ==
    /\ arg.type = "Content"
    /\ ret' = [fn |-> "FormatPattern", val |-> FormatPattern(arg), err |-> FALSE]
    /\ UNCHANGED <<rule, pc, s, d, i, arg>>

\* String is called on the byte match under call.
CallByteMatchString ==
    /\ arg.type = "ByteMatch"
    /\ ret' = [fn |-> "ByteMatch.String", val |-> ByteMatchString(arg), err |-> FALSE]
    /\ UNCHANGED <<rule, pc, s, d, i, arg>>

\* ByteMatcher is called on the keyword under call.
CallByteMatcher ==
    /\ arg.type = "keyword"
    /\ LET r == ByteMatcher(arg.s)
       IN  ret' = [fn |-> "ByteMatcher", val |-> r.val, err |-> r.err]
    /\ UNCHANGED <<rule, pc, s, d, i, arg>>

\* ------------------------------------------------------------ the inputs

\* The longest Rule.Matchers list drawn.
MaxMatchers == 3

\* The longest Rule.Contents list drawn for Rule.RE and ToRegexp.
MaxContents == 3

\* The longest Content.Pattern drawn for FormatPattern.
MaxPatLen == 4

\* The sequences over S of length at most n.
SeqsUpTo(S, n) == UNION {[1..k -> S] : k \in 0..n}

\* A FastPattern that is not enabled (the zero value).
NoFastPattern == [Enabled |-> FALSE, Only |-> FALSE, Offset |-> 0, Length |-> 0]

\* A *Content.
Content(dp, pattern, negate, options, fp) ==
    [type |-> "Content", DataPosition |-> dp, FastPattern |-> fp, Pattern |-> pattern,
     Negate |-> negate, Options |-> options]

\* A *ContentOption.
Option(name, value) == [Name |-> name, Value |-> value]

\* A *PCRE.
PCRE(pattern, negate, options) ==
    [type |-> "PCRE", Pattern |-> pattern, Negate |-> negate, Options |-> options]

\* A *ByteMatch.
ByteMatch(dp, kind, variable, numBytes, operator, value, offset, options) ==
    [type |-> "ByteMatch", DataPosition |-> dp, Kind |-> kind, Variable |-> variable,
     NumBytes |-> numBytes, Operator |-> operator, Value |-> value, Offset |-> offset,
     Options |-> options]

\* The contents drawn into Rule.Matchers: one per buffer, with and without options.
MatcherContents ==
    { Content(pktData, <<65>> (* 'A' *), FALSE, <<>>, NoFastPattern),
      Content(fileData, <<66, 0>>, FALSE, <<Option(<<119,105,116,104,105,110>> (* 'within' *), <<51>> (* '3' *))>>, NoFastPattern),
      Content(base64Data, <<97,32,98>> (* 'a b' *), TRUE, <<Option(<<110,111,99,97,115,101>> (* 'nocase' *), <<>>)>>,
              [Enabled |-> TRUE, Only |-> TRUE, Offset |-> 0, Length |-> 0]) }

\* The PCREs drawn: one with a quote in its pattern, one with an empty pattern.
MatcherPCREs ==
    { PCRE(<<97,34,98>> (* 'a"b' *), FALSE, <<105>> (* 'i' *)),
      PCRE(<<>>, FALSE, <<>>) }

\* The byte matches drawn: the three kinds and the zero kind, in several buffers.
MatcherByteMatches ==
    { ByteMatch(pktData, bUnknown, <<>>, 0, <<>>, 0, 0, <<<<114,101,108,97,116,105,118,101>> (* 'relative' *)>>),
      ByteMatch(fileData, bTest, <<>>, 4, <<62>> (* '>' *), 100, 0, <<>>),
      ByteMatch(pktData, bJump, <<>>, 4, <<>>, 0, 12, <<<<114,101,108,97,116,105,118,101>> (* 'relative' *), <<108,105,116,116,108,101>> (* 'little' *)>>),
      ByteMatch(base64Data, bExtract, <<118>> (* 'v' *), 2, <<>>, 0, -1, <<>>) }

\* The elements Rule.Matchers is drawn from.
MatcherPalette == MatcherContents \cup MatcherPCREs \cup MatcherByteMatches

\* The elements of ms of one type, in their order: the typed slice a parser
\* fills beside Rule.Matchers.
OfType(ms, type) == SelectSeq(ms, LAMBDA m : m.type = type)

\* A rule with nothing but its matchers, the typed slices holding the same elements.
PlainRule(ms) ==
    [Disabled |-> FALSE, Action |-> <<97,108,101,114,116>> (* 'alert' *), Protocol |-> <<116,99,112>> (* 'tcp' *),
     Source |-> [Nets |-> <<<<36,72,79,77,69,95,78,69,84>> (* '$HOME_NET' *)>>, Ports |-> <<<<97,110,121>> (* 'any' *)>>],
     Destination |-> [Nets |-> <<<<97,110,121>> (* 'any' *)>>, Ports |-> <<<<56,48>> (* '80' *)>>],
     Bidirectional |-> FALSE, SID |-> 1, Revision |-> 1, Description |-> <<109>> (* 'm' *),
     References |-> <<>>,
     Contents |-> OfType(ms, "Content"), PCREs |-> OfType(ms, "PCRE"),
     ByteMatchers |-> OfType(ms, "ByteMatch"),
     Tags |-> {}, Metas |-> <<>>, Flowbits |-> <<>>, Matchers |-> ms]

\* A disabled, bidirectional rule with every block filled, whose typed slices
\* hold other elements than its Matchers, in another order.
FullRule(ms) ==
    [Disabled |-> TRUE, Action |-> <<100,114,111,112>> (* 'drop' *), Protocol |-> <<104,116,116,112>> (* 'http' *),
     Source |-> [Nets |-> <<<<36,72,79,77,69,95,78,69,84>> (* '$HOME_NET' *), <<49,48,46,48,46,48,46,49>> (* '10.0.0.1' *)>>, Ports |-> <<<<97,110,121>> (* 'any' *)>>],
     Destination |-> [Nets |-> <<<<97,110,121>> (* 'any' *)>>, Ports |-> <<<<56,48>> (* '80' *), <<56,48,56,48>> (* '8080' *)>>],
     Bidirectional |-> TRUE, SID |-> 2000001, Revision |-> 3, Description |-> <<120,32,121>> (* 'x y' *),
     References |-> <<[Type |-> <<99,118,101>> (* 'cve' *), Value |-> <<50,48,49,54,45,49>> (* '2016-1' *)]>>,
     Contents |-> <<Content(base64Data, <<122>> (* 'z' *), FALSE, <<>>, NoFastPattern),
                    Content(base64Data, <<65>> (* 'A' *), FALSE, <<>>, NoFastPattern),
                    Content(pktData, <<65>> (* 'A' *), FALSE, <<>>, NoFastPattern)>>,
     PCREs |-> <<PCRE(<<113>> (* 'q' *), TRUE, <<>>)>>,
     ByteMatchers |-> <<>>,
     Tags |-> {[k |-> <<99,108,97,115,115,116,121,112,101>> (* 'classtype' *), v |-> <<116,114,111,106,97,110>> (* 'trojan' *)], [k |-> <<112,114,105,111,114,105,116,121>> (* 'priority' *), v |-> <<49>> (* '1' *)]},
     Metas |-> <<[Key |-> <<97>> (* 'a' *), Value |-> <<98>> (* 'b' *)], [Key |-> <<99>> (* 'c' *), Value |-> <<100>> (* 'd' *)]>>,
     Flowbits |-> <<[Action |-> <<105,115,115,101,116>> (* 'isset' *), Value |-> <<102>> (* 'f' *)], [Action |-> <<98,111,103,117,115>> (* 'bogus' *), Value |-> <<>>]>>,
     Matchers |-> ms]

\* The rules Rule.String and Contents.String are called on.
Rules ==
    {PlainRule(ms) : ms \in SeqsUpTo(MatcherPalette, MaxMatchers)}
        \cup {FullRule(ms) : ms \in SeqsUpTo(MatcherPalette, MaxMatchers)}

\* The contents Rule.RE and ToRegexp are called on: every shape of within
\* (positive, signed, padded, zero, negative, not a number, empty, missing, twice)
\* and patterns with bytes outside 32..126 and regexp metacharacters.
REContents ==
    { Content(pktData, <<0, 46>>, FALSE, <<Option(<<119,105,116,104,105,110>> (* 'within' *), <<51>> (* '3' *))>>, NoFastPattern),
      Content(pktData, <<65>> (* 'A' *), FALSE,
              <<Option(<<100,105,115,116,97,110,99,101>> (* 'distance' *), <<49>> (* '1' *)), Option(<<119,105,116,104,105,110>> (* 'within' *), <<48>> (* '0' *))>>, NoFastPattern),
      Content(fileData, <<255, 32>>, FALSE, <<Option(<<119,105,116,104,105,110>> (* 'within' *), <<45,53>> (* '-5' *))>>, NoFastPattern),
      Content(fileData, <<40>> (* '(' *), TRUE, <<Option(<<119,105,116,104,105,110>> (* 'within' *), <<120>> (* 'x' *))>>, NoFastPattern),
      Content(pktData, <<97,32,98>> (* 'a b' *), FALSE, <<Option(<<110,111,99,97,115,101>> (* 'nocase' *), <<>>)>>, NoFastPattern),
      Content(base64Data, <<31, 127>>, FALSE,
              <<Option(<<119,105,116,104,105,110>> (* 'within' *), <<43,49,48>> (* '+10' *)), Option(<<119,105,116,104,105,110>> (* 'within' *), <<48>> (* '0' *))>>, NoFastPattern),
      Content(pktData, <<126>> (* '~' *), FALSE, <<Option(<<119,105,116,104,105,110>> (* 'within' *), <<48,48,55>> (* '007' *))>>, NoFastPattern),
      Content(pktData, <<66>> (* 'B' *), FALSE, <<Option(<<119,105,116,104,105,110>> (* 'within' *), <<>>)>>, NoFastPattern) }

\* The rules Rule.RE and ToRegexp are called on.
RERules == {PlainRule(cs) : cs \in SeqsUpTo(REContents, MaxContents)}

\* The bytes patterns are drawn from: each side of every bound FormatPattern
\* tests (32, 35, 126), the colon, the semicolon, the pipe, a hex digit and a letter.
PatternBytes == {0, 32, 34, 35, 48, 58, 59, 65, 124, 126, 127}

\* The contents FormatPattern is called on.
PatternContents ==
    {Content(pktData, p, FALSE, <<>>, NoFastPattern) : p \in SeqsUpTo(PatternBytes, MaxPatLen)}

\* The byte matches String is called on: every kind, the zero kind and a value no
\* constant names included.
ByteMatches ==
    {ByteMatch(dp, kind, <<118>> (* 'v' *), n, <<62>> (* '>' *), 100, off, opts) :
        dp \in {pktData, fileData}, kind \in {bUnknown, bExtract, bTest, bJump, 4},
        n \in {0, 4}, off \in {-1, 12},
        opts \in {<<>>, <<<<114,101,108,97,116,105,118,101>> (* 'relative' *)>>, <<<<114,101,108,97,116,105,118,101>> (* 'relative' *), <<108,105,116,116,108,101>> (* 'little' *)>>}}

\* The keywords ByteMatcher is called on.
Keywords ==
    {[type |-> "keyword", s |-> kw] :
        kw \in {<<98,121,116,101,95,101,120,116,114,97,99,116>> (* 'byte_extract' *), <<98,121,116,101,95,106,117,109,112>> (* 'byte_jump' *), <<98,121,116,101,95,116,101,115,116>> (* 'byte_test' *), <<98,121,116,101,95,109,97,116,104>> (* 'byte_math' *),
                <<98,121,116,101,95,116,101,115>> (* 'byte_tes' *), <<99,111,110,116,101,110,116>> (* 'content' *), <<>>}}

\* -------------------------------------------------------- specifications

\* Rule.String and Contents.String on a rule.
Init ==
    /\ rule \in Rules
    /\ pc = "idle" /\ s = <<>> /\ d = pktData /\ i = 1
    /\ arg = NoArg /\ ret = NoRet

Next == StringStart \/ StringMatcher \/ StringFinish \/ CallContentsString

Spec == Init /\ [][Next]_vars

\* Rule.RE and Content.ToRegexp on a rule's contents.
InitRE ==
    /\ rule \in RERules
    /\ pc = "idle" /\ s = <<>> /\ d = pktData /\ i = 1
    /\ arg = NoArg /\ ret = NoRet

NextRE == CallRE \/ CallToRegexp

SpecRE == InitRE /\ [][NextRE]_vars

\* Content.FormatPattern on a content.
InitPattern ==
    /\ rule = PlainRule(<<>>)
    /\ pc = "idle" /\ s = <<>> /\ d = pktData /\ i = 1
    /\ arg \in PatternContents /\ ret = NoRet

NextPattern == CallFormatPattern

SpecPattern == InitPattern /\ [][NextPattern]_vars

\* ByteMatch.String and ByteMatcher.
InitByte ==
    /\ rule = PlainRule(<<>>)
    /\ pc = "idle" /\ s = <<>> /\ d = pktData /\ i = 1
    /\ arg \in ByteMatches \cup Keywords /\ ret = NoRet

NextByte == CallByteMatchString \/ CallByteMatcher

SpecByte == InitByte /\ [][NextByte]_vars

\* ------------------------------------------------ claims: FormatPattern

\* The sixteen digits of an uppercase hex pair.
HexChars == <<48,49,50,51,52,53,54,55,56,57,65,66,67,68,69,70>> (* '0123456789ABCDEF' *)

\* The two-digit uppercase hex pair of a byte.
HexPair(b) == <<HexChars[(b \div 16) + 1], HexChars[(b % 16) + 1]>>

\* What byte k of pattern p becomes when the bytes for which E holds are the ones
\* hex-escaped: its hex pair, after a pipe or (inside a run) a space, and before a
\* pipe when the run ends there; or the byte itself.
EncodedByte(p, k, E(_)) ==
    IF E(p[k])
    THEN (IF k > 1 /\ E(p[k - 1]) THEN <<32>> (* ' ' *) ELSE <<124>> (* '|' *))
            \o HexPair(p[k])
            \o (IF k < Len(p) /\ E(p[k + 1]) THEN <<>> ELSE <<124>> (* '|' *))
    ELSE <<p[k]>>

\* The encoding of pattern p when the bytes for which E holds are hex-escaped.
Encoded(p, E(_)) == Cat([k \in 1..Len(p) |-> EncodedByte(p, k, E)])

\* The bytes C4 says are hex-escaped: below 35 (the space included), above 126,
\* the colon and the semicolon.
ClaimedEscaped(b) == b < 35 \/ b > 126 \/ b = 58 \/ b = 59

\* The same bytes but the space.
AmendedEscaped(b) == b \in ((0..31) \cup {33, 34, 58, 59} \cup (127..255))

\* C4 as stated: FormatPattern hex-escapes a byte if and only if it is below 35
\* (the space, 32, included), above 126, a colon or a semicolon, and copies every
\* other byte; a space is written as the hex pair 20.
C4_SpaceEscaped ==
    ret.fn = "FormatPattern" => ret.val = Encoded(arg.Pattern, ClaimedEscaped)

\* C4 as amended: FormatPattern hex-escapes a byte if and only if it is not the
\* space and is below 35, above 126, a colon or a semicolon; every other byte, the
\* space included, is copied.
C4_SpaceLiteral ==
    ret.fn = "FormatPattern" => ret.val = Encoded(arg.Pattern, AmendedEscaped)

\* C4's case: a pattern with a digit, a space, a NUL and a colon has been encoded.
C4_Witness ==
    /\ ret.fn = "FormatPattern"
    /\ arg.Pattern = <<48, 32, 0, 58>>
    /\ ret.val = <<48,32,124,48,48,32,51,65,124>> (* '0 |00 3A|' *)

\* Whether every byte of p lies in 35..126 and is none of space, colon, semicolon.
PlainBytes(p) == \A k \in 1..Len(p) : p[k] \in 35..126 /\ p[k] \notin {32, 58, 59}

\* C5 as stated: for a pattern whose bytes all lie in 35..126 and are none of
\* space, colon or semicolon, FormatPattern's result holds no pipe and is the pattern.
C5_NoPipe ==
    (ret.fn = "FormatPattern" /\ PlainBytes(arg.Pattern))
        => (~Contains(ret.val, 124) /\ ret.val = arg.Pattern)

\* C5 as amended: for a pattern whose bytes all lie in 35..126 and are none of
\* colon, semicolon or pipe, FormatPattern's result holds no pipe and is the pattern.
C5_NoPipeByte ==
    (ret.fn = "FormatPattern" /\ PlainBytes(arg.Pattern) /\ ~Contains(arg.Pattern, 124))
        => (~Contains(ret.val, 124) /\ ret.val = arg.Pattern)

\* C5's case: a pattern of the two bounds 35 and 126 and a digit has been encoded.
C5_Witness ==
    /\ ret.fn = "FormatPattern"
    /\ arg.Pattern = <<35, 48, 126>>
    /\ ret.val = <<35,48,126>> (* '#0~' *)

\* The bytes of the patterns an encoding is compared with: a hex-escaped byte, a
\* hex digit and the pipe.
CollisionBytes == {0, 48, 124}

\* C6 as stated: FormatPattern is invertible; no other pattern has the encoding
\* of the pattern that was encoded.
C6_Injective ==
    ret.fn = "FormatPattern" =>
        \A b2 \in SeqsUpTo(CollisionBytes, MaxPatLen) :
            FormatPattern(Content(pktData, b2, FALSE, <<>>, NoFastPattern)) = ret.val
                => b2 = arg.Pattern

RECURSIVE RunEnd(_, _)
\* The last byte of the maximal run that byte k of p begins: the bytes from k on
\* that are hex-escaped as p[k] is.
RunEnd(p, k) ==
    IF k < Len(p) /\ hexEscaped(p[k + 1]) = hexEscaped(p[k]) THEN RunEnd(p, k + 1) ELSE k

\* The hex pairs of bytes k..e of p, joined by single spaces.
JoinedPairs(p, k, e) ==
    Cat([j \in 1..(e - k + 1) |->
            (IF j > 1 THEN <<32>> (* ' ' *) ELSE <<>>) \o HexPair(p[k + j - 1])])

RECURSIVE EncodedRuns(_, _)
\* The encoding of p from byte k on, run by run: a run of hex-escaped bytes is one
\* group between two pipes, a run of other bytes is copied.
EncodedRuns(p, k) ==
    IF k > Len(p) THEN <<>>
    ELSE LET e == RunEnd(p, k)
         IN  (IF hexEscaped(p[k])
              THEN Cat(<<<<124>> (* '|' *), JoinedPairs(p, k, e), <<124>> (* '|' *)>>)
              ELSE SubSeq(p, k, e))
                 \o EncodedRuns(p, e + 1)

\* The number of maximal runs of hex-escaped bytes in p.
HexRuns(p) ==
    Cardinality({k \in 1..Len(p) : hexEscaped(p[k]) /\ (k = 1 \/ ~hexEscaped(p[k - 1]))})

\* The number of places of t that hold byte b.
Count(t, b) == Cardinality({k \in 1..Len(t) : t[k] = b})

\* C7: every maximal run of hex-escaped bytes becomes one group, a pipe, the hex
\* pairs joined by single spaces, a pipe; a run open at the end of the pattern is
\* closed; the pipes the encoder writes are two per run; NUL, A, NUL gives
\* |00|A|00| and the empty pattern the empty string.
C7_Runs ==
    ret.fn = "FormatPattern" =>
        /\ ret.val = EncodedRuns(arg.Pattern, 1)
        /\ Count(ret.val, 124) = 2 * HexRuns(arg.Pattern) + Count(arg.Pattern, 124)
        /\ (arg.Pattern = <<0, 65, 0>> => ret.val = <<124,48,48,124,65,124,48,48,124>> (* '|00|A|00|' *))
        /\ (arg.Pattern = <<>> => ret.val = <<>>)

\* C7's case: a pattern that ends inside a run of two hex-escaped bytes has been encoded.
C7_Witness ==
    /\ ret.fn = "FormatPattern"
    /\ arg.Pattern = <<0, 65, 0, 127>>
    /\ ret.val = <<124,48,48,124,65,124,48,48,32,55,70,124>> (* '|00|A|00 7F|' *)

\* ------------------------------------------------ claims: byte matchers

\* The keyword of each kind of byte match.
KindKeyword(kind) ==
    CASE kind = bExtract -> <<98,121,116,101,95,101,120,116,114,97,99,116>> (* 'byte_extract' *)
      [] kind = bJump -> <<98,121,116,101,95,106,117,109,112>> (* 'byte_jump' *)
      [] kind = bTest -> <<98,121,116,101,95,116,101,115,116>> (* 'byte_test' *)

\* The fixed arguments of each kind, in their order, comma-joined.
FixedArgs(b) ==
    CASE b.Kind = bExtract ->
            Cat(<<itoa(b.NumBytes), <<44>> (* ',' *), itoa(b.Offset), <<44>> (* ',' *), b.Variable>>)
      [] b.Kind = bJump ->
            Cat(<<itoa(b.NumBytes), <<44>> (* ',' *), itoa(b.Offset)>>)
      [] b.Kind = bTest ->
            Cat(<<itoa(b.NumBytes), <<44>> (* ',' *), b.Operator, <<44>> (* ',' *), itoa(b.Value), <<44>> (* ',' *),
                  itoa(b.Offset)>>)

\* C9 as stated: a keyword other than byte_extract, byte_jump and byte_test is
\* refused with an error; a byte match of one of the three kinds renders as its
\* keyword, a colon, its fixed arguments, its options each after a comma, and a
\* semicolon; a byte match of any other kind renders no text at all.
C9_NeverPartial ==
    /\ (ret.fn = "ByteMatcher" /\ arg.s \notin {KindKeyword(k) : k \in {bExtract, bJump, bTest}})
          => (ret.err /\ ret.val = bUnknown)
    /\ ret.fn = "ByteMatch.String" =>
          IF arg.Kind \in {bExtract, bJump, bTest}
          THEN ret.val = Cat(<<KindKeyword(arg.Kind), <<58>> (* ':' *), FixedArgs(arg)>>)
                            \o Cat([k \in 1..Len(arg.Options) |-> <<44>> (* ',' *) \o arg.Options[k]])
                            \o <<59>> (* ';' *)
          ELSE ret.val = <<>>

\* ---------------------------------------------------- claims: Rule.String

\* The greatest of a non-empty set of numbers.
Greatest(S) == CHOOSE x \in S : \A y \in S : y <= x

\* The DataPosition of the last element before place k of ms whose type is one of
\* types, the default buffer when there is none.
PrevDataPos(ms, k, types) ==
    LET before == {j \in 1..(k - 1) : ms[j].type \in types}
    IN  IF before = {} THEN pktData ELSE ms[Greatest(before)].DataPosition

\* Whether element k of ms is a Content in another buffer than the Content before it.
Switches(ms, k) ==
    /\ ms[k].type = "Content"
    /\ ms[k].DataPosition # PrevDataPos(ms, k, {"Content"})

\* The buffer-selector directive of a buffer: its name and a semicolon.
Directive(dp) == stickyBuffers[dp + 1] \o <<59>> (* ';' *)

\* The texts made of the given elements in their order, with at most one space
\* before each and after the last.
Spaced(elements) ==
    IF Len(elements) = 1
    THEN {Cat(<<a, elements[1], b>>) : a \in {<<>>, <<32>> (* ' ' *)}, b \in {<<>>, <<32>> (* ' ' *)}}
    ELSE {Cat(<<a, elements[1], b, elements[2], c>>) :
             a \in {<<>>, <<32>> (* ' ' *)}, b \in {<<>>, <<32>> (* ' ' *)}, c \in {<<>>, <<32>> (* ' ' *)}}

\* What a step of Rule.String's loop has appended to the builder.
Appended == SubSeq(s', Len(s) + 1, Len(s'))

\* C1 as stated: when Rule.String comes to a Content or a ByteMatch whose
\* DataPosition differs from the cursor, it writes the directive of that buffer
\* before the element's text and moves the cursor to that buffer.
C1_ContentOrByteMatch ==
    [][(/\ pc = "matchers"
        /\ i <= Len(rule.Matchers)
        /\ rule.Matchers[i].type \in {"Content", "ByteMatch"}
        /\ rule.Matchers[i].DataPosition # d)
          => (/\ d' = rule.Matchers[i].DataPosition
              /\ IsPrefix(s, s')
              /\ Appended \in Spaced(<<Directive(rule.Matchers[i].DataPosition),
                                       MatcherString(rule.Matchers[i])>>))]_vars

\* What Contents.String returns when a directive goes before each content that
\* switches buffer and before no other.
DirectedContents(cs) ==
    TrimSpace(Cat([k \in 1..Len(cs) |->
        Cat(<<IF Switches(cs, k) THEN <<32>> (* ' ' *) \o Directive(cs[k].DataPosition) ELSE <<>>,
              <<32>> (* ' ' *), ContentString(cs[k])>>)]))

\* C2, of a step of Rule.String's loop: it writes a directive, before the
\* element's text, exactly when the element is a Content in another buffer than
\* the Content before it (the default buffer for the first).
C2_Step ==
    (pc = "matchers" /\ i <= Len(rule.Matchers)) =>
        /\ IsPrefix(s, s')
        /\ Appended \in
              (IF Switches(rule.Matchers, i)
               THEN Spaced(<<Directive(rule.Matchers[i].DataPosition),
                             MatcherString(rule.Matchers[i])>>)
               ELSE Spaced(<<MatcherString(rule.Matchers[i])>>))

\* C2: in Rule.String and in Contents.String a directive is written exactly before
\* each Content whose DataPosition differs from that of the Content before it, the
\* cursor being that DataPosition and the default buffer at the start of each call;
\* contents in the default buffer and then in file_data give the one directive
\* file_data; between the two content clauses.
C2_Directives ==
    /\ [](ret.fn = "Contents.String" =>
            /\ ret.val = DirectedContents(rule.Contents)
            /\ (/\ Len(rule.Contents) = 2
                /\ rule.Contents[1].DataPosition = pktData
                /\ rule.Contents[2].DataPosition = fileData)
                  => ret.val = Cat(<<ContentString(rule.Contents[1]), <<32,102,105,108,101,95,100,97,116,97,59,32>> (* ' file_data; ' *),
                                     ContentString(rule.Contents[2])>>))
    /\ [](pc = "matchers" => d = PrevDataPos(rule.Matchers, i, {"Content"}))
    /\ [][C2_Step]_vars

\* C2's case: Rule.String has written a content in the default buffer and a
\* content in file_data, with the directive between them.
C2_Witness ==
    /\ pc = "matchers"
    /\ i = 3
    /\ Len(rule.Matchers) = 2
    /\ rule.Matchers[1].type = "Content" /\ rule.Matchers[1].DataPosition = pktData
    /\ rule.Matchers[2].type = "Content" /\ rule.Matchers[2].DataPosition = fileData
    /\ d = fileData
    /\ s = Cat(<<ruleHead(rule), ContentString(rule.Matchers[1]), <<32,32,102,105,108,101,95,100,97,116,97,59>> (* '  file_data;' *),
                 ContentString(rule.Matchers[2]), <<32>> (* ' ' *)>>)

\* What Rule.String writes for element k of ms: the directive if the element
\* switches buffer, the element's text, a space.
Piece(ms, k) ==
    Cat(<<IF Switches(ms, k) THEN <<32>> (* ' ' *) \o Directive(ms[k].DataPosition) ELSE <<>>,
          MatcherString(ms[k]), <<32>> (* ' ' *)>>)

\* What Rule.String writes for the first n elements of ms.
Body(ms, n) == Cat([k \in 1..n |-> Piece(ms, k)])

\* C3: Rule.String writes the matchers in the order of Rule.Matchers, each once,
\* a directive going between the matcher before it and the Content it belongs to;
\* the text depends on Rule.Matchers alone, not on the typed slices.
C3_Order ==
    /\ pc = "matchers" => s = ruleHead(rule) \o Body(rule.Matchers, i - 1)
    /\ pc = "done" =>
          /\ ret.fn = "Rule.String" => ret.val = s
          /\ \E order \in tagOrders(rule.Tags) :
                s = Cat(<<ruleHead(rule), Body(rule.Matchers, Len(rule.Matchers)),
                          ruleTail(rule, order)>>)

\* C3's case: Rule.String has returned for a rule whose Matchers are a byte match,
\* a PCRE and a content, and whose typed slices hold other elements.
C3_Witness ==
    /\ pc = "done"
    /\ ret.fn = "Rule.String"
    /\ Len(rule.Matchers) = 3
    /\ rule.Matchers[1].type = "ByteMatch"
    /\ rule.Matchers[2].type = "PCRE" /\ rule.Matchers[2].Pattern # <<>>
    /\ rule.Matchers[3].type = "Content"
    /\ rule.Contents # OfType(rule.Matchers, "Content")
    /\ rule.PCREs # OfType(rule.Matchers, "PCRE")

\* The elements Rule.String has to write for the first n elements of ms: the
\* directives and the matchers' texts, those that are empty left out.
Elements(ms, n) ==
    Cat([k \in 1..n |->
            (IF Switches(ms, k) THEN <<Directive(ms[k].DataPosition)>> ELSE <<>>)
                \o (IF MatcherString(ms[k]) # <<>> THEN <<MatcherString(ms[k])>> ELSE <<>>)])

\* The texts of a sequence joined by single spaces.
JoinSpace(elements) ==
    Cat([k \in 1..Len(elements) |-> (IF k > 1 THEN <<32>> (* ' ' *) ELSE <<>>) \o elements[k]])

\* C10 as stated: in the match body, the directives and the matchers' clauses
\* follow each other with exactly one space between two of them, also around a
\* directive and around a matcher that renders as the empty string.
C10_SingleSpaces ==
    pc = "matchers" =>
        /\ IsPrefix(ruleHead(rule), s)
        /\ TrimSpace(SubSeq(s, Len(ruleHead(rule)) + 1, Len(s)))
              = JoinSpace(Elements(rule.Matchers, i - 1))

\* ------------------------------------------------------- claims: Rule.RE

\* Whether text w is a decimal numeral of the number n: its digits, after any
\* zeros and an optional plus sign.
Denotes(w, n) ==
    \E zeros \in 0..Len(w) : \E sign \in {<<>>, <<43>> (* '+' *)} :
        w = Cat(<<sign, [k \in 1..zeros |-> 48], itoa(n)>>)

\* The gap before a content: bounded by the content's within when that is a
\* numeral of a positive integer, unbounded otherwise.
Gap(c) ==
    LET w == within(c.Options)
    IN  IF \E n \in 1..99 : Denotes(w, n)
        THEN Cat(<<<<46,123,48,44>> (* '.{0,' *), itoa(CHOOSE n \in 1..99 : Denotes(w, n)), <<125>> (* '}' *)>>)
        ELSE <<46,42>> (* '.*' *)

\* C8 as stated: Rule.RE is, for each content in order, the gap of its within
\* and then the text Content.ToRegexp returns for it (bytes outside 32..126
\* replaced by a dot, the result metacharacter-escaped).
C8_LooseRegex ==
    ret.fn = "RE" =>
        ret.val = Cat([k \in 1..Len(rule.Contents) |->
                          Gap(rule.Contents[k]) \o ToRegexp(rule.Contents[k])])

\* C8 as amended: Rule.RE is, for each content in order, the gap of its within
\* and then escape of the pattern: the pattern's bytes unchanged, a backslash
\* before each byte escapeRE matches, no byte replaced by a dot.
C8_EscapedPattern ==
    ret.fn = "RE" =>
        ret.val = Cat([k \in 1..Len(rule.Contents) |->
                          Gap(rule.Contents[k]) \o escape(rule.Contents[k].Pattern)])

\* C8's case: Rule.RE has returned for a content within 3 whose pattern is a NUL
\* and a dot, followed by a content within 0.
C8_Witness ==
    /\ ret.fn = "RE"
    /\ Len(rule.Contents) = 2
    /\ rule.Contents[1].Pattern = <<0, 46>>
    /\ within(rule.Contents[1].Options) = <<51>> (* '3' *)
    /\ within(rule.Contents[2].Options) = <<48>> (* '0' *)
    /\ ret.val = Cat(<<<<46,123,48,44,51,125>> (* '.{0,3}' *), <<0>>, <<92,46>> (* '\\.' *), <<46,42,65>> (* '.*A' *)>>)

====
